---- MODULE Spec2Model ----
(***************************************************************************)
(* Model of the JustifyAI backend: the Gemini processor service            *)
(* (backend/microservice2/main.py) and the LLM auditor service             *)
(* (backend/llm-auditor/main.py).                                          *)
(*                                                                         *)
(* Text is a sequence of one-character strings.  Each service is a state   *)
(* machine of its own; a specification below runs one of them and leaves   *)
(* the variables of the others untouched.                                  *)
(***************************************************************************)
EXTENDS Integers, Sequences, FiniteSets, TLC

VARIABLES
    \* ---- hyperlink extraction (GeminiProcessor.extract_hyperlinks) ----
    text,            \* the input text of the call
    nchunks,         \* how many pieces the input was assembled from
    hyperlinks,      \* the list the call returned
    lpc,             \* "build" while the input is assembled, "done" after the call
    \* ---- image generation (generate_image_fast / generate_image) ----
    gpc,             \* position inside the call
    gvariant,        \* "fast" = generate_image_fast, "plain" = generate_image
    gprompt,         \* parameter prompt
    num_images,      \* parameter num_images
    gi,              \* loop variable i
    gm,              \* position in FAST_IMAGE_MODELS (model_index + 1)
    image_generated, \* local flag of generate_image_fast
    image_data_list, \* local list the artifacts are appended to
    gret,            \* the list the call returned
    attempted,       \* the slots for which a model call was made
    \* ---- the pipeline (process_api_output, /process, /process-simple) ----
    ppc,             \* position of the request inside the endpoint
    endpoint,        \* "/process" or "/process-simple"
    api_output,      \* request field api_output: [response, session_id]
    generate_image,  \* request field generate_image
    plinks,          \* local hyperlinks
    concise_content, \* local concise_content
    detailed_content,\* local detailed_content
    pimages,         \* local image_data_list of process_api_output
    results,         \* what GeminiProcessor.process_api_output returned
    presp,           \* the HTTP response of the endpoint
    flog,            \* the generate_formatted_content calls of the run, in order
    fscript,         \* what the text model would answer to the successive
                     \* calls of the latest generate_formatted_content
    \* ---- the LLM auditor service (/query) ----
    user_sessions,   \* the module-level dictionary user_id -> session id
    loop,            \* the request whose handler runs on the event loop, 0 if none
    qpc,             \* per request: position inside query_agent
    quser,           \* per request: request.user_id
    qsess,           \* per request: local session_id
    qcreated,        \* per request: "created" / "failed" once its handler called
                     \* create_session, "reused" once it found a stored id
    qresp,           \* per request: the HTTP response
    qevents,         \* per request: what stream_query yielded to its handler
    qforward,        \* per request: what requests.post to /process came to
    next_id,         \* the next session id the agent backend issues
    \* ---- successive requests to the processor service ----
    now,             \* time.time() of the processor service
    simple_ref,      \* an earlier answer of /process-simple kept for comparison
    \* ---- GET /health of both services ----
    agent_backend,   \* state of the agent backend (Vertex AI reasoning engine)
    genai_backend,   \* state of the generative-model API
    hpc,             \* per service: "idle", or "running" while /health runs
    hresp,           \* per service: the latest /health response
    hduring          \* per service: the backend states that response was made in

linkVars == <<text, nchunks, hyperlinks, lpc>>

imgVars == <<gpc, gvariant, gprompt, num_images, gi, gm, image_generated,
             image_data_list, gret, attempted>>

pipeVars == <<ppc, endpoint, api_output, generate_image, plinks,
              concise_content, detailed_content, pimages, results, presp,
              flog, fscript>>

audVars == <<user_sessions, loop, qpc, quser, qsess, qcreated, qresp, qevents,
            qforward, next_id>>

seqVars == <<now, simple_ref>>

healthVars == <<agent_backend, genai_backend, hpc, hresp, hduring>>

vars == <<linkVars, imgVars, pipeVars, audVars, seqVars, healthVars>>

\* what the steps of each part leave alone
exceptLink == <<imgVars, pipeVars, audVars, seqVars, healthVars>>

exceptImg == <<linkVars, pipeVars, audVars, seqVars, healthVars>>

exceptPipe == <<linkVars, imgVars, audVars, seqVars, healthVars>>

exceptAud == <<linkVars, imgVars, pipeVars, seqVars, healthVars>>

exceptHealth == <<linkVars, imgVars, pipeVars, audVars, seqVars>>

----------------------------------------------------------------------------
(* Bounds *)
MaxChunks == 5
MaxCount  == 2     \* largest num_images of a direct call
MaxBytes  == 2     \* longest image payload a model returns, in bytes
MaxAttempts == 3   \* how many successive answers of the text model are drawn
MaxReqs   == 2     \* /query requests the server holds at a time
MaxIds    == 3     \* session ids the agent backend can issue
MaxTime   == 2     \* clock readings after the first; one request per reading

----------------------------------------------------------------------------
(* Hyperlink extractor: re.findall(r'https?://[^\s\)]+', text), then the   *)
(* order-preserving removal of duplicates.                                 *)

Whitespace == {" ", "\t", "\n"}

HTTP  == <<"h", "t", "t", "p", ":", "/", "/">>
HTTPS == <<"h", "t", "t", "p", "s", ":", "/", "/">>

\* The pieces input texts are assembled from: two complete URLs, a scheme
\* with nothing after it, a character that extends a URL, and the two kinds
\* of character that end one.
Chunks == { HTTP \o <<"a">>, HTTPS \o <<"b">>, HTTP, <<"a">>, <<" ">>, <<")">> }

\* lit occurs in t at position i
MatchLiteral(t, i, lit) ==
    /\ i + Len(lit) - 1 <= Len(t)
    /\ \A k \in 1..Len(lit) : t[i + k - 1] = lit[k]

\* [^\s\)]
IsUrlChar(c) == c \notin Whitespace \cup {")"}

\* https?:// at position i: the position right after it, or 0
SchemeEnd(t, i) ==
    IF MatchLiteral(t, i, HTTPS) THEN i + Len(HTTPS)
    ELSE IF MatchLiteral(t, i, HTTP) THEN i + Len(HTTP)
    ELSE 0

\* the greedy [^\s\)]* from position j: the position right after the run
RECURSIVE BodyEnd(_, _)
BodyEnd(t, j) ==
    IF j <= Len(t) /\ IsUrlChar(t[j]) THEN BodyEnd(t, j + 1) ELSE j

\* the whole pattern at position i: the position right after the match, or 0
MatchAt(t, i) ==
    LET s == SchemeEnd(t, i) IN
    IF s = 0 THEN 0
    ELSE LET e == BodyEnd(t, s) IN IF e > s THEN e ELSE 0

\* the non-overlapping matches from position i on, left to right, each with
\* the position it starts at
RECURSIVE FindAllFrom(_, _)
FindAllFrom(t, i) ==
    IF i > Len(t) THEN << >>
    ELSE LET e == MatchAt(t, i) IN
         IF e > 0
         THEN <<[start |-> i, url |-> SubSeq(t, i, e - 1)]>> \o FindAllFrom(t, e)
         ELSE FindAllFrom(t, i + 1)

Matches(t) == FindAllFrom(t, 1)

re_findall(t) == [k \in 1..Len(Matches(t)) |-> Matches(t)[k].url]

InList(x, l) == \E k \in 1..Len(l) : l[k] = x

\* a dedup that forgets the membership test
UniqueStepDup(unique_urls, url) == Append(unique_urls, url)

\* one iteration of the loop over urls
UniqueStep(unique_urls, url) ==
    IF ~InList(url, unique_urls) THEN Append(unique_urls, url) ELSE unique_urls

RECURSIVE UniqueLoop(_, _)
UniqueLoop(unique_urls, urls) ==
    IF urls = << >> THEN unique_urls
    ELSE UniqueLoop(UniqueStep(unique_urls, Head(urls)), Tail(urls))

extract_hyperlinks(t) == UniqueLoop(<< >>, re_findall(t))

----------------------------------------------------------------------------
(* Image generator: generate_image_fast (model fallback list) and          *)
(* generate_image (single model).                                          *)

FAST_IMAGE_MODELS == <<"gemini-2.5-flash-image-preview">>

Prompts == {"p1", "p2"}

Variants == {"fast", "plain"}

\* image payloads: byte strings of at most MaxBytes bytes
Bytes == {0, 255}

ByteStrings == UNION {[1..n -> Bytes] : n \in 0..MaxBytes}

\* base64.b64encode: three bytes give four sextets, a shorter last group is
\* padded with '=' (written 64 here)
RECURSIVE b64encode(_)
b64encode(b) ==
    IF Len(b) = 0 THEN << >>
    ELSE IF Len(b) = 1
         THEN <<b[1] \div 4, (b[1] % 4) * 16, 64, 64>>
    ELSE IF Len(b) = 2
         THEN <<b[1] \div 4, (b[1] % 4) * 16 + (b[2] \div 16), (b[2] % 16) * 4, 64>>
    ELSE <<b[1] \div 4, (b[1] % 4) * 16 + (b[2] \div 16),
           (b[2] % 16) * 4 + (b[3] \div 64), b[3] % 64>>
         \o b64encode(SubSeq(b, 4, Len(b)))

\* What one model call and the handling of its answer can come to:
\*   api_error      generate_content raises (API failure, timeout)
\*   no_candidates  response.candidates[0].content.parts raises
\*   no_inline      no part carries inline_data
\*   bad_image      Image.open raises on the payload
\*   save_failed    image.save raises
\*   ok             the image is decoded and written
CallOutcomes ==
    {[kind |-> k, data |-> << >>] : k \in {"api_error", "no_candidates", "no_inline"}}
    \cup {[kind |-> "bad_image", data |-> b] : b \in ByteStrings}
    \cup {[kind |-> k, data |-> b] :
              k \in {"save_failed", "ok"}, b \in ByteStrings \ {<< >>}}

Raises(o) == o.kind \in {"api_error", "no_candidates", "bad_image", "save_failed"}

\* the image_data dictionary of generate_image_fast
FastImageData(i, model_index, o, prompt) ==
    [id |-> <<"image", i>>,
     filename |-> <<"generated_image", i, FAST_IMAGE_MODELS[model_index]>>,
     base64_data |-> b64encode(o.data),
     format |-> "png",
     size_bytes |-> Len(o.data),
     prompt |-> prompt,
     model_used |-> FAST_IMAGE_MODELS[model_index],
     model_priority |-> model_index]

\* the image_data dictionary of generate_image
PlainImageData(i, o, prompt) ==
    [id |-> <<"image", i>>,
     filename |-> <<"generated_image", i>>,
     base64_data |-> b64encode(o.data),
     format |-> "png",
     size_bytes |-> Len(o.data),
     prompt |-> prompt]

\* the error_data dictionary of a slot
ErrorData(i, prompt, err) ==
    [id |-> <<"error_image", i>>,
     filename |-> <<"error_image", i>>,
     base64_data |-> << >>,
     format |-> "error",
     size_bytes |-> 0,
     prompt |-> prompt,
     error |-> err]

\* the error_data dictionary of generate_image_fast, which adds models_tried
FastErrorData(i, prompt) ==
    [id |-> <<"error_image", i>>,
     filename |-> <<"error_image", i>>,
     base64_data |-> << >>,
     format |-> "error",
     size_bytes |-> 0,
     prompt |-> prompt,
     error |-> "All image generation models failed",
     models_tried |-> FAST_IMAGE_MODELS]

\* the one-element list the outermost except clause returns
OuterErrorList(prompt, err) ==
    << [id |-> <<"error_image">>,
        filename |-> <<"error_image">>,
        base64_data |-> << >>,
        format |-> "error",
        size_bytes |-> 0,
        prompt |-> prompt,
        error |-> err] >>

ImgIdle ==
    /\ gpc = "idle"
    /\ gvariant = "fast"
    /\ gprompt = "p1"
    /\ num_images = 0
    /\ gi = 0
    /\ gm = 1
    /\ image_generated = FALSE
    /\ image_data_list = << >>
    /\ gret = << >>
    /\ attempted = {}

\* entry of generate_image_fast / generate_image
GenEnter(v, n, p) ==
    /\ gpc = "idle"
    /\ gpc' = "slot"
    /\ gvariant' = v
    /\ gprompt' = p
    /\ num_images' = n
    /\ gi' = 0
    /\ image_data_list' = << >>
    /\ UNCHANGED <<gm, image_generated, gret, attempted>>

\* for i in range(num_images): the next slot, or the return after the loop
GenLoop ==
    /\ gpc = "slot"
    /\ IF gi < num_images
       THEN /\ gpc' = IF gvariant = "fast" THEN "model" ELSE "attempt"
            /\ gm' = 1
            /\ image_generated' = FALSE
            /\ UNCHANGED gret
       ELSE /\ gpc' = "returned"
            /\ gret' = image_data_list
            /\ UNCHANGED <<gm, image_generated>>
    /\ UNCHANGED <<gvariant, gprompt, num_images, gi, image_data_list, attempted>>
    /\ UNCHANGED exceptImg

\* generate_image_fast: one pass of the loop over FAST_IMAGE_MODELS
FastTryModel ==
    /\ gpc = "model"
    /\ gm <= Len(FAST_IMAGE_MODELS)
    /\ \E o \in CallOutcomes :
         IF o.kind = "ok"
         THEN /\ image_data_list' =
                     Append(image_data_list, FastImageData(gi, gm, o, gprompt))
              /\ image_generated' = TRUE
              /\ gi' = gi + 1
              /\ gpc' = "slot"
              /\ UNCHANGED gm
         ELSE /\ gm' = gm + 1
              /\ UNCHANGED <<image_data_list, image_generated, gi, gpc>>
    /\ attempted' = attempted \cup {gi}
    /\ UNCHANGED <<gvariant, gprompt, num_images, gret>>
    /\ UNCHANGED exceptImg

\* generate_image_fast: if not image_generated, after the last model
FastAllFailed ==
    /\ gpc = "model"
    /\ gm > Len(FAST_IMAGE_MODELS)
    /\ ~image_generated
    /\ image_data_list' = Append(image_data_list, FastErrorData(gi, gprompt))
    /\ gpc' = "note"
    /\ UNCHANGED <<gvariant, gprompt, num_images, gi, gm, image_generated,
                   gret, attempted>>
    /\ UNCHANGED exceptImg

\* generate_image_fast: writing the error placeholder file; a failure is
\* caught by the outermost except clause only
FastWriteNote ==
    /\ gpc = "note"
    /\ \E written \in BOOLEAN :
         IF written
         THEN /\ gi' = gi + 1
              /\ gpc' = "slot"
              /\ UNCHANGED gret
         ELSE /\ gret' = OuterErrorList(gprompt, "note_write_failed")
              /\ gpc' = "returned"
              /\ UNCHANGED gi
    /\ UNCHANGED <<gvariant, gprompt, num_images, gm, image_generated,
                   image_data_list, attempted>>
    /\ UNCHANGED exceptImg

\* generate_image: the inner try block up to the end of the loop over parts
\* and the test len(image_data_list) <= i after it
PlainAttempt ==
    /\ gpc = "attempt"
    /\ \E o \in CallOutcomes :
         IF Raises(o)
         THEN /\ image_data_list' =
                     Append(image_data_list, ErrorData(gi, gprompt, o.kind))
              /\ gpc' = "note_except"
              /\ UNCHANGED gi
         ELSE LET l == IF o.kind = "ok"
                       THEN Append(image_data_list, PlainImageData(gi, o, gprompt))
                       ELSE image_data_list
              IN  IF Len(l) <= gi
                  THEN /\ image_data_list' =
                              Append(l, ErrorData(gi, gprompt, "Image generation failed"))
                       /\ gpc' = "note_try"
                       /\ UNCHANGED gi
                  ELSE /\ image_data_list' = l
                       /\ gi' = gi + 1
                       /\ gpc' = "slot"
    /\ attempted' = attempted \cup {gi}
    /\ UNCHANGED <<gvariant, gprompt, num_images, gm, image_generated, gret>>
    /\ UNCHANGED exceptImg

\* generate_image: writing the placeholder inside the inner try block; a
\* failure is caught by the slot's own except clause
PlainWriteNoteTry ==
    /\ gpc = "note_try"
    /\ \E written \in BOOLEAN :
         IF written
         THEN /\ gi' = gi + 1
              /\ gpc' = "slot"
              /\ UNCHANGED image_data_list
         ELSE /\ image_data_list' =
                     Append(image_data_list, ErrorData(gi, gprompt, "note_write_failed"))
              /\ gpc' = "note_except"
              /\ UNCHANGED gi
    /\ UNCHANGED <<gvariant, gprompt, num_images, gm, image_generated, gret,
                   attempted>>
    /\ UNCHANGED exceptImg

\* generate_image: writing the error details inside the slot's except
\* clause; a failure is caught by the outermost except clause only
PlainWriteNoteExcept ==
    /\ gpc = "note_except"
    /\ \E written \in BOOLEAN :
         IF written
         THEN /\ gi' = gi + 1
              /\ gpc' = "slot"
              /\ UNCHANGED gret
         ELSE /\ gret' = OuterErrorList(gprompt, "note_write_failed")
              /\ gpc' = "returned"
              /\ UNCHANGED gi
    /\ UNCHANGED <<gvariant, gprompt, num_images, gm, image_generated,
                   image_data_list, attempted>>
    /\ UNCHANGED exceptImg


----------------------------------------------------------------------------
(* Content formatter: GeminiProcessor.generate_formatted_content.          *)

MAX_RETRIES == 1

Styles == {"concise", "detailed"}

\* what the text model answers to one call: a text, a failure carrying a
\* transient-error marker (HTTP 500/502/503/504), or any other failure
BackendAnswers == {"ok", "transient", "permanent"}

Scripts == [1..MaxAttempts -> BackendAnswers]

\* the model's freedom in wording an answer
Wordings == {1, 2}

ErrorMessage(answer) ==
    IF answer = "transient" THEN "503 UNAVAILABLE" ELSE "400 INVALID_ARGUMENT"

\* One call of generate_formatted_content: the prompt is built for the
\* style, the model is called once, and its text is returned; any exception
\* is logged and raised again.  script holds the model's answers to the
\* successive calls it would receive; calls is how many it received.
generate_formatted_content(content, style, script, w) ==
    IF script[1] = "ok"
    THEN [style |-> style, ok |-> TRUE, calls |-> 1,
          value |-> <<style, content, w>>, error |-> ""]
    ELSE [style |-> style, ok |-> FALSE, calls |-> 1,
          value |-> << >>, error |-> ErrorMessage(script[1])]

----------------------------------------------------------------------------
(* Pipeline orchestrator: GeminiProcessor.process_api_output and the       *)
(* endpoints /process and /process-simple.                                 *)

Endpoints == {"/process", "/process-simple"}

\* session ids a caller can send: a plain one and one with a path separator
SessionIds == { <<"s", "1">>, <<"a", "/", "b">> }

\* open(f"outputs/processing_results_{session_id}_{ts}.json", 'w') finds its
\* directory only when session_id names no directory of its own
ResultsFileWritable(sid) == \A k \in 1..Len(sid) : sid[k] # "/"

PipeTexts ==
    { << >>,
      HTTP \o <<"a", " ">> \o HTTP \o <<"a">>,
      <<"a", " ">> \o HTTPS \o <<"b", ")">> }

\* text[:100]
Prefix100(t) == SubSeq(t, 1, IF Len(t) < 100 THEN Len(t) ELSE 100)

\* f"Create a visual representation of: {api_output.response[:100]}..."
ImagePrompt(t) == <<"Create a visual representation of: ", Prefix100(t), "...">>

NoValue == [none |-> TRUE]

PipeIdle ==
    /\ ppc = "idle"
    /\ endpoint = "/process"
    /\ api_output = [response |-> << >>, session_id |-> << >>]
    /\ generate_image = FALSE
    /\ plinks = << >>
    /\ concise_content = NoValue
    /\ detailed_content = NoValue
    /\ pimages = << >>
    /\ results = NoValue
    /\ presp = NoValue
    /\ flog = << >>
    /\ fscript = << >>

\* the dictionary of the except clause of process_api_output, partial
\* content included
ErrorResultsPartial(out, msg) ==
    [original_query |-> <<Prefix100(out.response), "...">>,
     session_id |-> out.session_id,
     status |-> "error",
     error_message |-> msg,
     formatted_content |-> [concise |-> concise_content]]

\* the dictionary of the except clause of process_api_output
ErrorResults(out, msg) ==
    [original_query |-> <<Prefix100(out.response), "...">>,
     session_id |-> out.session_id,
     status |-> "error",
     error_message |-> msg]

\* a results dictionary that takes a failed image for a failed run
SuccessResultsStrict(out, concise, detailed, imgs, links) ==
    IF \E k \in 1..Len(imgs) : imgs[k].format = "error"
    THEN ErrorResults(out, "Image generation failed")
    ELSE [original_query |-> <<Prefix100(out.response), "...">>,
          session_id |-> out.session_id,
          formatted_content |-> [concise |-> concise, detailed |-> detailed],
          generated_media |-> [images |-> imgs],
          proof |-> links,
          status |-> "success"]

\* Step 4 of process_api_output: the results dictionary
SuccessResults(out, concise, detailed, imgs, links) ==
    [original_query |-> <<Prefix100(out.response), "...">>,
     session_id |-> out.session_id,
     formatted_content |-> [concise |-> concise, detailed |-> detailed],
     generated_media |-> [images |-> imgs],
     proof |-> links,
     status |-> "success"]

\* an endpoint that hands the method's dictionary back whatever its status
ProcessResponseAsIs(res) == [http |-> 200, body |-> res]

\* /process after the method returned: a success is returned as the
\* ProcessingResponse; otherwise HTTPException(500, error_message) is raised
\* inside the try block, caught by its except Exception clause and raised
\* again with detail = str(e), which reads "500: <error_message>"
ProcessResponse(res) ==
    IF res.status = "success"
    THEN [http |-> 200, body |-> res]
    ELSE [http |-> 500, body |-> [detail |-> <<"500: ", res.error_message>>]]

\* a /process-simple that stamps its proof list
SimpleResponseStamped(out, concise, detailed, links) ==
    [http |-> 200,
     body |-> [session_id |-> out.session_id,
               formatted_content |-> [concise |-> concise, detailed |-> detailed],
               proof |-> <<links, now>>,
               processing_timestamp |-> now,
               status |-> "success"]]

\* the dictionary /process-simple returns
SimpleResponse(out, concise, detailed, links) ==
    [http |-> 200,
     body |-> [session_id |-> out.session_id,
               formatted_content |-> [concise |-> concise, detailed |-> detailed],
               proof |-> links,
               processing_timestamp |-> now,
               status |-> "success"]]

\* the except clause of /process-simple: HTTPException(500, detail=str(e))
SimpleFailure(msg) == [http |-> 500, body |-> [detail |-> msg]]

\* an orchestrator that generates the image whether requested or not
WantsImageAlways(g) == TRUE

\* if generate_image:
WantsImage(g) == g

\* the JSON objects a caller can send as api_output: both fields, or one
\* of them left out
APIOutputs ==
    [response : PipeTexts, session_id : SessionIds]
        \cup [response : PipeTexts] \cup [session_id : SessionIds]

\* class APIOutput(BaseModel): response: str, session_id: str -- both
\* fields are required and any string, the empty one included, is accepted
ValidAPIOutput(out) == {"response", "session_id"} \subseteq DOMAIN out

\* what FastAPI answers, before the handler is called, to a body that does
\* not fit the model
ValidationFailure == [http |-> 422, body |-> [detail |-> "field required"]]

\* a request arrives at one of the two endpoints and its body is parsed
\* into the handler's parameter
Receive ==
    /\ ppc = "idle"
    /\ \E e \in Endpoints, out \in APIOutputs, g \in BOOLEAN :
         /\ endpoint' = e
         /\ api_output' = out
         /\ generate_image' = IF e = "/process" THEN g ELSE FALSE
         /\ IF ValidAPIOutput(out)
            THEN /\ ppc' = "extract"
                 /\ UNCHANGED presp
            ELSE /\ ppc' = "responded"
                 /\ presp' = ValidationFailure
    /\ UNCHANGED <<plinks, concise_content, detailed_content, pimages, results,
                   flog, fscript>>
    /\ UNCHANGED exceptPipe

\* Step 1: hyperlinks = self.extract_hyperlinks(api_output.response)
ExtractStep ==
    /\ ppc = "extract"
    /\ plinks' = extract_hyperlinks(api_output.response)
    /\ ppc' = "concise"
    /\ UNCHANGED <<endpoint, api_output, generate_image, concise_content,
                   detailed_content, pimages, results, presp, flog, fscript>>
    /\ UNCHANGED exceptPipe

\* where an exception raised by a stage ends: the except clause of
\* process_api_output returns the error dictionary, that of /process-simple
\* answers 500
StageFailure(msg) ==
    IF endpoint = "/process"
    THEN /\ results' = ErrorResults(api_output, msg)
         /\ ppc' = "method_done"
         /\ UNCHANGED presp
    ELSE /\ presp' = SimpleFailure(msg)
         /\ ppc' = "responded"
         /\ UNCHANGED results

\* Step 2, first call: generate_formatted_content(response, "concise")
FormatConcise ==
    /\ ppc = "concise"
    /\ \E sc \in Scripts, w \in Wordings :
         LET r == generate_formatted_content(api_output.response, "concise", sc, w)
         IN  /\ fscript' = sc
             /\ flog' = Append(flog, r)
             /\ IF r.ok
                THEN /\ concise_content' = r.value
                     /\ ppc' = "detailed"
                     /\ UNCHANGED <<results, presp>>
                ELSE /\ StageFailure(r.error)
                     /\ UNCHANGED concise_content
    /\ UNCHANGED <<endpoint, api_output, generate_image, plinks,
                   detailed_content, pimages>>
    /\ UNCHANGED exceptPipe

\* Step 2, second call: generate_formatted_content(response, "detailed")
FormatDetailed ==
    /\ ppc = "detailed"
    /\ \E sc \in Scripts, w \in Wordings :
         LET r == generate_formatted_content(api_output.response, "detailed", sc, w)
         IN  /\ fscript' = sc
             /\ flog' = Append(flog, r)
             /\ IF r.ok
                THEN /\ detailed_content' = r.value
                     /\ ppc' = IF endpoint = "/process" THEN "image" ELSE "simple_return"
                     /\ UNCHANGED <<results, presp>>
                ELSE /\ StageFailure(r.error)
                     /\ UNCHANGED detailed_content
    /\ UNCHANGED <<endpoint, api_output, generate_image, plinks,
                   concise_content, pimages>>
    /\ UNCHANGED exceptPipe

\* Step 3 when no image is requested: image_data_list = []
SkipImage ==
    /\ ppc = "image"
    /\ gpc = "idle"
    /\ ~WantsImage(generate_image)
    /\ pimages' = << >>
    /\ ppc' = "compile"
    /\ UNCHANGED <<endpoint, api_output, generate_image, plinks, concise_content,
                   detailed_content, results, presp, flog, fscript>>
    /\ UNCHANGED exceptPipe

\* Step 3: the call self.generate_image_fast(image_prompt, num_images=1)
ImageCall ==
    /\ ppc = "image"
    /\ WantsImage(generate_image)
    /\ GenEnter("fast", 1, ImagePrompt(api_output.response))
    /\ UNCHANGED exceptImg

\* Step 3: the call returns and image_data_list is bound
ImageReturn ==
    /\ ppc = "image"
    /\ gpc = "returned"
    /\ pimages' = gret
    /\ ppc' = "compile"
    /\ UNCHANGED <<endpoint, api_output, generate_image, plinks, concise_content,
                   detailed_content, results, presp, flog, fscript>>
    /\ UNCHANGED exceptPipe

\* Step 4 and the write of the results file; a failed write (no such
\* directory, disk full) raises into the except clause of process_api_output
CompileAndSave ==
    /\ ppc = "compile"
    /\ \E saved \in BOOLEAN :
         /\ saved => ResultsFileWritable(api_output.session_id)
         /\ results' = IF saved
                       THEN SuccessResults(api_output, concise_content,
                                           detailed_content, pimages, plinks)
                       ELSE ErrorResults(api_output, "results_write_failed")
    /\ ppc' = "method_done"
    /\ UNCHANGED <<endpoint, api_output, generate_image, plinks, concise_content,
                   detailed_content, pimages, presp, flog, fscript>>
    /\ UNCHANGED exceptPipe

\* /process answers from what the method returned
ProcessRespond ==
    /\ ppc = "method_done"
    /\ presp' = ProcessResponse(results)
    /\ ppc' = "responded"
    /\ UNCHANGED <<endpoint, api_output, generate_image, plinks, concise_content,
                   detailed_content, pimages, results, flog, fscript>>
    /\ UNCHANGED exceptPipe

\* /process-simple returns its dictionary
SimpleRespond ==
    /\ ppc = "simple_return"
    /\ presp' = SimpleResponse(api_output, concise_content, detailed_content, plinks)
    /\ ppc' = "responded"
    /\ UNCHANGED <<endpoint, api_output, generate_image, plinks, concise_content,
                   detailed_content, pimages, results, flog, fscript>>
    /\ UNCHANGED exceptPipe

\* no request answered yet
SeqIdle ==
    /\ now = 0
    /\ simple_ref = NoValue

\* the handler has returned and time has passed: the next request finds the
\* service as it was at start-up (the locals of the handlers are gone; the
\* processor object holds the API client only)
NextRequest ==
    /\ ppc = "responded"
    /\ now < MaxTime
    /\ now' = now + 1
    /\ ppc' = "idle"
    /\ endpoint' = "/process"
    /\ api_output' = [response |-> << >>, session_id |-> << >>]
    /\ generate_image' = FALSE
    /\ plinks' = << >>
    /\ concise_content' = NoValue
    /\ detailed_content' = NoValue
    /\ pimages' = << >>
    /\ results' = NoValue
    /\ presp' = NoValue
    /\ flog' = << >>
    /\ fscript' = << >>
    /\ gpc' = "idle"
    /\ gvariant' = "fast"
    /\ gprompt' = "p1"
    /\ num_images' = 0
    /\ gi' = 0
    /\ gm' = 1
    /\ image_generated' = FALSE
    /\ image_data_list' = << >>
    /\ gret' = << >>
    /\ attempted' = {}
    /\ UNCHANGED <<simple_ref, linkVars, audVars, healthVars>>

\* what a caller keeps of a successful /process-simple answer: the input,
\* what the text model answered to the two prompts, and the content
KeepAnswer ==
    /\ ppc = "responded"
    /\ endpoint = "/process-simple"
    /\ presp.http = 200
    /\ simple_ref = NoValue
    /\ simple_ref' = [input |-> api_output,
                      answers |-> flog,
                      formatted_content |-> presp.body.formatted_content,
                      proof |-> presp.body.proof]
    /\ UNCHANGED <<now, linkVars, imgVars, pipeVars, audVars, healthVars>>

----------------------------------------------------------------------------
(* LLM auditor service: the session dictionary and the /query handler.     *)
(*                                                                         *)
(* query_agent is a coroutine run by the single event loop of the process. *)
(* Its calls to the agent engine are plain blocking calls, and the one     *)
(* await, on send_to_justifyai, reaches no suspension point (requests.post *)
(* blocks too), so a handler keeps the event loop from its first statement *)
(* to its response; requests that arrive meanwhile wait for the loop.      *)

Users == {"u1", "u2"}

Reqs == 1..MaxReqs

\* what agent_engine.stream_query yields: events, each with content.parts;
\* a part is a dictionary that holds "text" or lacks it
EventStreams ==
    { << >>,
      << <<[text |-> "a"], [text |-> "b"]>>, << >>, <<[text |-> "c"]>> >>,
      << <<[text |-> "a"]>>, <<[data |-> "x"]>> >> }

\* for event in ...: for part in event["content"]["parts"]
RECURSIVE AllParts(_)
AllParts(events) ==
    IF events = << >> THEN << >> ELSE Head(events) \o AllParts(Tail(events))

\* part["text"] raises KeyError on a part without the key
Malformed(events) ==
    \E k \in 1..Len(AllParts(events)) : "text" \notin DOMAIN AllParts(events)[k]

\* a join that puts nothing between the fragments
RECURSIVE JoinNothing(_)
JoinNothing(fragments) ==
    IF fragments = << >> THEN << >>
    ELSE <<Head(fragments)>> \o JoinNothing(Tail(fragments))

\* " ".join(responses)
RECURSIVE JoinSpace(_)
JoinSpace(fragments) ==
    IF fragments = << >> THEN << >>
    ELSE IF Len(fragments) = 1 THEN <<Head(fragments)>>
    ELSE <<Head(fragments), " ">> \o JoinSpace(Tail(fragments))

CombinedResponse(events) ==
    JoinSpace([k \in 1..Len(AllParts(events)) |-> AllParts(events)[k].text])

\* what requests.post to the processing service comes to: status 200 with
\* a JSON object as body, status 200 with a JSON body of another type (an
\* array, a string, a number), another status, a timeout, another
\* RequestException, any other exception (an undecodable body included)
ForwardOutcomes ==
    {"200", "200_not_object", "non200", "timeout", "request_error", "other"}

\* send_to_justifyai: every outcome ends in a returned value, which is the
\* decoded body on status 200 and a dictionary with an "error" entry
\* otherwise; type is the Python type of the value
send_to_justifyai(outcome) ==
    CASE outcome = "200" -> [type |-> "dict", value |-> [status |-> "success"]]
      [] outcome = "200_not_object" -> [type |-> "list", value |-> [item |-> 1]]
      [] outcome = "non200" ->
             [type |-> "dict",
              value |-> [error |-> "JustifyAI API error: 500", details |-> "body"]]
      [] outcome = "timeout" ->
             [type |-> "dict",
              value |-> [error |-> "Timeout while calling JustifyAI API"]]
      [] outcome = "request_error" ->
             [type |-> "dict", value |-> [error |-> "Request error"]]
      [] outcome = "other" ->
             [type |-> "dict", value |-> [error |-> "Unexpected error"]]

\* a response model that takes any value for justifyai_response
QueryResponseLax(response, session_id, justifyai_response) ==
    [http |-> 200,
     body |-> [response |-> response,
               session_id |-> session_id,
               justifyai_response |-> justifyai_response.value]]

\* QueryResponse(response=..., session_id=..., justifyai_response=...): the
\* model declares justifyai_response: dict, so a value of another type
\* raises a ValidationError, which the except Exception clause of
\* query_agent turns into HTTPException(500, "Query failed: ...")
QueryResponse(response, session_id, justifyai_response) ==
    IF justifyai_response.type = "dict"
    THEN [http |-> 200,
          body |-> [response |-> response,
                    session_id |-> session_id,
                    justifyai_response |-> justifyai_response.value]]
    ELSE [http |-> 500,
          body |-> [detail |-> <<"Query failed: ", "validation error">>]]

HttpError(code, detail) == [http |-> code, body |-> [detail |-> detail]]

AudIdle ==
    /\ user_sessions = << >>
    /\ loop = 0
    /\ qpc = [r \in Reqs |-> "none"]
    /\ quser = [r \in Reqs |-> ""]
    /\ qsess = [r \in Reqs |-> 0]
    /\ qcreated = [r \in Reqs |-> "none"]
    /\ qresp = [r \in Reqs |-> NoValue]
    /\ qevents = [r \in Reqs |-> NoValue]
    /\ qforward = [r \in Reqs |-> "none"]
    /\ next_id = 1

\* a handler that never finds a stored session
HasSessionNever(u) == FALSE

\* request.user_id in user_sessions
HasSession(u) == u \in DOMAIN user_sessions

\* a store that forgets the entries of the other users
StoreSessionAlone(u, id) == [x \in {u} |-> id]

\* user_sessions[user_id] = session["id"]
StoreSession(u, id) ==
    [x \in (DOMAIN user_sessions) \cup {u} |->
        IF x = u THEN id ELSE user_sessions[x]]

\* the handler ends with an exception: the response is sent and the event
\* loop is free again
QueryFails(r, code, detail) ==
    /\ qresp' = [qresp EXCEPT ![r] = HttpError(code, detail)]
    /\ qpc' = [qpc EXCEPT ![r] = "done"]
    /\ loop' = 0

\* a /query request reaches the server; the place of an answered request
\* is taken by a new one
QueryArrive(r) ==
    /\ qpc[r] \in {"none", "done"}
    /\ \E u \in Users : quser' = [quser EXCEPT ![r] = u]
    /\ qpc' = [qpc EXCEPT ![r] = "queued"]
    /\ qsess' = [qsess EXCEPT ![r] = 0]
    /\ qcreated' = [qcreated EXCEPT ![r] = "none"]
    /\ qresp' = [qresp EXCEPT ![r] = NoValue]
    /\ qevents' = [qevents EXCEPT ![r] = NoValue]
    /\ qforward' = [qforward EXCEPT ![r] = "none"]
    /\ UNCHANGED <<user_sessions, loop, next_id>>
    /\ UNCHANGED exceptAud

\* the event loop starts the handler: get_agent_engine()
QueryBegin(r) ==
    /\ qpc[r] = "queued"
    /\ loop = 0
    /\ \E engine \in {"available", "unavailable"} :
         IF engine = "available"
         THEN /\ loop' = r
              /\ qpc' = [qpc EXCEPT ![r] = "session"]
              /\ UNCHANGED qresp
         ELSE QueryFails(r, 503, "Agent engine not available")
    /\ UNCHANGED <<user_sessions, quser, qsess, qcreated, qevents, qforward,
                   next_id>>
    /\ UNCHANGED exceptAud

\* get or create session
QuerySession(r) ==
    /\ qpc[r] = "session"
    /\ loop = r
    /\ IF HasSession(quser[r])
       THEN /\ qsess' = [qsess EXCEPT ![r] = user_sessions[quser[r]]]
            /\ qcreated' = [qcreated EXCEPT ![r] = "reused"]
            /\ qpc' = [qpc EXCEPT ![r] = "stream"]
            /\ UNCHANGED <<user_sessions, loop, qresp, next_id>>
       ELSE /\ next_id <= MaxIds
            /\ \E created \in {"session", "raises", "no_id"} :
                 IF created = "session"
                 THEN /\ user_sessions' = StoreSession(quser[r], next_id)
                      /\ qsess' = [qsess EXCEPT ![r] = next_id]
                      /\ qcreated' = [qcreated EXCEPT ![r] = "created"]
                      /\ next_id' = next_id + 1
                      /\ qpc' = [qpc EXCEPT ![r] = "stream"]
                      /\ UNCHANGED <<loop, qresp>>
                 ELSE /\ QueryFails(r, 500, <<"Query failed: ", created>>)
                      /\ qcreated' = [qcreated EXCEPT ![r] = "failed"]
                      /\ UNCHANGED <<user_sessions, qsess, next_id>>
    /\ UNCHANGED <<quser, qevents, qforward>>
    /\ UNCHANGED exceptAud

\* execute the query and combine the fragments: stream_query yields events
\* and then ends or raises; a part without "text" raises KeyError in the
\* loop body, and the generator is not resumed after that; either exception
\* ends in the except Exception clause
QueryStream(r) ==
    /\ qpc[r] = "stream"
    /\ loop = r
    /\ \E events \in EventStreams, raises \in BOOLEAN :
         /\ qevents' = [qevents EXCEPT ![r] =
                            [events |-> events,
                             raised |-> raises /\ ~Malformed(events)]]
         /\ IF Malformed(events)
            THEN QueryFails(r, 500, <<"Query failed: ", "'text'">>)
            ELSE IF raises
            THEN QueryFails(r, 500, <<"Query failed: ", "stream_query">>)
            ELSE /\ qresp' = [qresp EXCEPT ![r] =
                                 [response |-> CombinedResponse(events)]]
                 /\ qpc' = [qpc EXCEPT ![r] = "forward"]
                 /\ UNCHANGED loop
    /\ UNCHANGED <<user_sessions, quser, qsess, qcreated, qforward, next_id>>
    /\ UNCHANGED exceptAud

\* send to the processing service and return the QueryResponse
QueryForward(r) ==
    /\ qpc[r] = "forward"
    /\ loop = r
    /\ \E outcome \in ForwardOutcomes :
         /\ qforward' = [qforward EXCEPT ![r] = outcome]
         /\ qresp' = [qresp EXCEPT ![r] =
                         QueryResponse(qresp[r].response, qsess[r],
                                       send_to_justifyai(outcome))]
    /\ qpc' = [qpc EXCEPT ![r] = "done"]
    /\ loop' = 0
    /\ UNCHANGED <<user_sessions, quser, qsess, qcreated, qevents, next_id>>
    /\ UNCHANGED exceptAud

----------------------------------------------------------------------------
(* GET /health of both services.                                           *)

Services == {"llm-auditor", "microservice2"}

\* an external backend answers, cannot be reached, or answers with errors
BackendStates == {"reachable", "unreachable", "failing"}

HealthIdle ==
    /\ agent_backend = "reachable"
    /\ genai_backend = "reachable"
    /\ hpc = [s \in Services |-> "idle"]
    /\ hresp = [s \in Services |-> NoValue]
    /\ hduring = [s \in Services |-> NoValue]

\* get_agent_engine(): agent_engines.get(agent_engine_id) inside try; any
\* exception is returned as (None, str(e))
get_agent_engine(backend) ==
    IF backend = "reachable"
    THEN [agent_engine |-> "engine", error |-> "None"]
    ELSE [agent_engine |-> "None", error |-> backend]

\* a health check that reports the service by the state of its backend
health_checkStrict(service, backend) ==
    IF backend = "reachable"
    THEN [http |-> 200, body |-> [status |-> "healthy"]]
    ELSE [http |-> 503, body |-> [detail |-> backend]]

\* health_check of either service.  The auditor asks get_agent_engine and
\* reports what it got under "agent_engine" and "error" with status
\* "healthy" (get_agent_engine raises nothing, so the "degraded" answer of
\* the except clause is never given); the processor returns a constant
\* status and the time, and looks at no backend.
health_check(service, backend) ==
    IF service = "llm-auditor"
    THEN LET got == get_agent_engine(backend)
         IN  [http |-> 200,
              body |-> [status |-> "healthy",
                        service |-> "LLM Auditor API on Cloud Run",
                        project |-> "genaiexchange-470403",
                        agent_engine |-> IF got.agent_engine # "None"
                                         THEN "available" ELSE "unavailable",
                        error |-> got.error]]
    ELSE [http |-> 200, body |-> [status |-> "healthy", timestamp |-> now]]

\* the backend a service depends on
BackendOf(service) ==
    IF service = "llm-auditor" THEN agent_backend ELSE genai_backend

\* the external backends change state
BackendChange ==
    /\ \E a \in BackendStates, g \in BackendStates :
         /\ <<a, g>> # <<agent_backend, genai_backend>>
         /\ agent_backend' = a
         /\ genai_backend' = g
    /\ UNCHANGED <<hpc, hresp, hduring>>
    /\ UNCHANGED exceptHealth

\* GET /health reaches a service
HealthArrive(s) ==
    /\ hpc[s] = "idle"
    /\ hpc' = [hpc EXCEPT ![s] = "running"]
    /\ hresp' = [hresp EXCEPT ![s] = NoValue]
    /\ hduring' = [hduring EXCEPT ![s] = NoValue]
    /\ UNCHANGED <<agent_backend, genai_backend>>
    /\ UNCHANGED exceptHealth

\* the handler runs (on the event loop, for the auditor) and answers
HealthAnswer(s) ==
    /\ hpc[s] = "running"
    /\ s = "llm-auditor" => loop = 0
    /\ hresp' = [hresp EXCEPT ![s] = health_check(s, BackendOf(s))]
    /\ hduring' = [hduring EXCEPT ![s] =
                       [agent |-> agent_backend, genai |-> genai_backend]]
    /\ hpc' = [hpc EXCEPT ![s] = "idle"]
    /\ UNCHANGED <<agent_backend, genai_backend>>
    /\ UNCHANGED exceptHealth

----------------------------------------------------------------------------
(* The state of both services after start-up: no call made, no request    *)
(* received, the session dictionary empty.                                 *)

LinkIdle ==
    /\ text = << >>
    /\ nchunks = 0
    /\ hyperlinks = << >>
    /\ lpc = "build"

Init ==
    /\ LinkIdle
    /\ ImgIdle
    /\ PipeIdle
    /\ SeqIdle
    /\ HealthIdle
    /\ AudIdle

----------------------------------------------------------------------------
(* Specification SpecLinks: assemble an input text, then extract.          *)

AppendChunk ==
    /\ lpc = "build"
    /\ nchunks < MaxChunks
    /\ \E c \in Chunks : text' = text \o c
    /\ nchunks' = nchunks + 1
    /\ UNCHANGED <<hyperlinks, lpc>>
    /\ UNCHANGED exceptLink

ExtractHyperlinks ==
    /\ lpc = "build"
    /\ hyperlinks' = extract_hyperlinks(text)
    /\ lpc' = "done"
    /\ UNCHANGED <<text, nchunks>>
    /\ UNCHANGED exceptLink

NextLinks == AppendChunk \/ ExtractHyperlinks

SpecLinks == Init /\ [][NextLinks]_vars

----------------------------------------------------------------------------
(* C1: for every input text, extract_hyperlinks returns exactly the URLs   *)
(* the pattern matches, none of them twice, ordered by the position in the *)
(* text of each URL's first match.                                         *)

FirstMatchPos(t, u) ==
    LET ks == {k \in 1..Len(Matches(t)) : Matches(t)[k].url = u}
    IN  Matches(t)[CHOOSE k \in ks : \A k2 \in ks : k <= k2].start

C1_NoDupFirstOrder ==
    lpc = "done" =>
        /\ \A i, j \in 1..Len(hyperlinks) :
               i # j => hyperlinks[i] # hyperlinks[j]
        /\ {hyperlinks[i] : i \in 1..Len(hyperlinks)}
               = {Matches(text)[k].url : k \in 1..Len(Matches(text))}
        /\ \A i, j \in 1..Len(hyperlinks) :
               i < j => FirstMatchPos(text, hyperlinks[i])
                            < FirstMatchPos(text, hyperlinks[j])

\* a URL matched, another one matched, then the first again: the shape of
\* 'see https://a.com and https://b.com then https://a.com again'
C1_Witness ==
    /\ lpc = "done"
    /\ Len(Matches(text)) = 3
    /\ Matches(text)[1].url = Matches(text)[3].url
    /\ Matches(text)[1].url # Matches(text)[2].url
    /\ hyperlinks = <<Matches(text)[1].url, Matches(text)[2].url>>

----------------------------------------------------------------------------
(* Specification SpecImage: one direct call generate(prompt, count) of     *)
(* either generator.                                                       *)

GenCall ==
    /\ \E v \in Variants, n \in 0..MaxCount, p \in Prompts : GenEnter(v, n, p)
    /\ UNCHANGED exceptImg

NextImage ==
    \/ GenCall
    \/ GenLoop
    \/ FastTryModel
    \/ FastAllFailed
    \/ FastWriteNote
    \/ PlainAttempt
    \/ PlainWriteNoteTry
    \/ PlainWriteNoteExcept

SpecImage == Init /\ [][NextImage]_vars

IsSuccessArtifact(a) ==
    /\ a.format = "png"
    /\ a.base64_data # << >>
    /\ a.size_bytes > 0

IsErrorArtifact(a) ==
    /\ a.format = "error"
    /\ a.base64_data = << >>
    /\ a.size_bytes = 0

(* C2: whatever model calls, decoding steps and file writes succeed or     *)
(* fail, the list generate(prompt, count) returns has exactly count        *)
(* elements, each a success artifact (format png, non-empty payload) or an *)
(* error artifact (format error, empty payload, size 0).                   *)
C2_LengthIsCount ==
    gpc = "returned" =>
        /\ Len(gret) = num_images
        /\ \A k \in 1..Len(gret) :
               IsSuccessArtifact(gret[k]) \/ IsErrorArtifact(gret[k])

(* C9: with count > 1, a failure in one slot (model call, payload decode,  *)
(* or writing the failure note) never prevents the later slots from being  *)
(* attempted and never changes or removes the artifacts produced so far.   *)
C9_SlotsIndependent ==
    (gpc = "returned" /\ num_images > 1) =>
        /\ \A j \in 0..(num_images - 1) : j \in attempted
        /\ \A k \in 1..Len(image_data_list) :
               k <= Len(gret) /\ gret[k] = image_data_list[k]

----------------------------------------------------------------------------
(* Specification SpecPipeline: one request to /process or /process-simple, *)
(* the image generator call of /process included.                          *)

NextPipeline ==
    \/ Receive
    \/ ExtractStep
    \/ FormatConcise
    \/ FormatDetailed
    \/ SkipImage
    \/ ImageCall
    \/ GenLoop
    \/ FastTryModel
    \/ FastAllFailed
    \/ FastWriteNote
    \/ ImageReturn
    \/ CompileAndSave
    \/ ProcessRespond
    \/ SimpleRespond

SpecPipeline == Init /\ [][NextPipeline]_vars

\* some generate_formatted_content call of the run raised
FormatterFailed == \E k \in 1..Len(flog) : ~flog[k].ok

(* C4: if either formatter call fails during a run of process_api_output,  *)
(* the run ends Failed: the payload has status error and carries the       *)
(* failure message of the failing call, it holds neither the concise nor   *)
(* the detailed content, and the image generator is never invoked.         *)
C4_TextFailureAborts ==
    (endpoint = "/process" /\ FormatterFailed) =>
        /\ gpc = "idle" /\ attempted = {}
        /\ ppc \in {"method_done", "responded"}
        /\ results.status = "error"
        /\ results.error_message = flog[Len(flog)].error
        /\ results.error_message \in {ErrorMessage(a) : a \in BackendAnswers \ {"ok"}}
        /\ DOMAIN results \cap {"formatted_content", "concise", "detailed"} = {}

\* the concise call succeeded, the detailed call failed, and /process with
\* an image requested has answered
C4_Witness ==
    /\ endpoint = "/process" /\ generate_image
    /\ Len(flog) = 2 /\ flog[1].ok /\ ~flog[2].ok
    /\ ppc = "responded"

\* the image stage of the run is over and no model produced an image
ImageFailed ==
    /\ endpoint = "/process" /\ generate_image
    /\ ppc \in {"compile", "method_done", "responded"}
    /\ ~FormatterFailed
    /\ attempted = {0}
    /\ ~image_generated

(* C5: when an image is requested and every model attempt for the slot    *)
(* fails, the run does not end Failed: /process still returns status       *)
(* success with the concise and detailed content and the hyperlinks, the   *)
(* failure being an artifact with format error in images.                  *)
C5_ImageFailureNotFatal ==
    (ImageFailed /\ ppc = "responded") =>
        /\ presp.http = 200
        /\ presp.body.status = "success"
        /\ presp.body.formatted_content =
               [concise |-> concise_content, detailed |-> detailed_content]
        /\ presp.body.proof = plinks
        /\ \E k \in 1..Len(presp.body.generated_media.images) :
               presp.body.generated_media.images[k].format = "error"

(* C5, the part the code keeps: the image stage itself yields one artifact *)
(* with format error, and the run returns status success with the concise  *)
(* and detailed content, the hyperlinks and that artifact whenever the     *)
(* results file is written; the only failure left is that write's.         *)
C5_ImageStageDegrades ==
    ImageFailed =>
        /\ Len(pimages) = 1 /\ IsErrorArtifact(pimages[1])
        /\ ppc \in {"method_done", "responded"} =>
             \/ /\ results.status = "success"
                /\ concise_content # NoValue /\ detailed_content # NoValue
                /\ results.formatted_content =
                       [concise |-> concise_content, detailed |-> detailed_content]
                /\ results.proof = plinks
                /\ results.generated_media.images = pimages
                /\ ppc = "responded" => presp = [http |-> 200, body |-> results]
             \/ /\ results.status = "error"
                /\ results.error_message = "results_write_failed"

\* every model attempt failed and /process answered 200
C5_DegradedRun ==
    /\ ImageFailed
    /\ ppc = "responded"
    /\ presp.http = 200
    /\ presp.body.generated_media.images[1].format = "error"

\* the stages in their order
StageRank(p) ==
    CASE p = "idle" -> 0
      [] p = "extract" -> 1
      [] p = "concise" -> 2
      [] p = "detailed" -> 3
      [] p = "image" -> 4
      [] p \in {"compile", "simple_return"} -> 5
      [] p = "method_done" -> 6
      [] p = "responded" -> 7

C6_ImageAfterText ==
    /\ gpc # "idle" =>
          /\ endpoint = "/process" /\ generate_image
          /\ ppc \in {"image", "compile", "method_done", "responded"}
          /\ Len(flog) = 2
          /\ flog[1].style = "concise" /\ flog[1].ok
          /\ flog[2].style = "detailed" /\ flog[2].ok
    /\ ~generate_image =>
          /\ gpc = "idle" /\ attempted = {}
          /\ pimages = << >>
          /\ (endpoint = "/process" /\ ppc \in {"method_done", "responded"}
                 /\ results # NoValue)
                => (results.status = "success"
                        => results.generated_media.images = << >>)

C6_ForwardStep ==
    /\ StageRank(ppc') >= StageRank(ppc)
    /\ gpc # "idle" => flog' = flog
    /\ gpc # "idle" => gpc' # "idle"

(* C6: within one run the stages only advance: the image generator is      *)
(* invoked only after hyperlink extraction and both formatter calls have   *)
(* succeeded and only when an image was requested (otherwise images is     *)
(* empty and no image-model call is made), and no formatter call happens   *)
(* once the image stage has begun.                                         *)
C6_StagesForward == [](C6_ImageAfterText) /\ [][C6_ForwardStep]_vars

\* a run with an image requested went through the image stage and answered
C6_Witness ==
    /\ generate_image
    /\ gpc = "returned" /\ attempted = {0}
    /\ ppc = "responded"
    /\ presp.http = 200

(* C7: one generate_formatted_content invocation follows the retry policy: *)
(* after a failure carrying a transient-error marker it calls the model    *)
(* again (MAX_RETRIES allows one retry), returning the second answer when  *)
(* that one succeeds; after a non-transient failure it makes no further    *)
(* call and the failure propagates.                                        *)
C7_RetryPolicy ==
    flog # << >> =>
        LET r == flog[Len(flog)] IN
        /\ (fscript[1] = "transient" /\ MAX_RETRIES >= 1) => r.calls >= 2
        /\ (fscript[1] = "transient" /\ fscript[2] = "ok" /\ MAX_RETRIES >= 1) => r.ok
        /\ fscript[1] = "permanent" => (r.calls = 1 /\ ~r.ok)

\* the run failed: a formatter call raised or the results file was not written
RunFailed ==
    \/ FormatterFailed
    \/ (endpoint = "/process" /\ results # NoValue /\ results.status = "error")

(* C8 as stated: every /process and /process-simple request, one whose     *)
(* text stage fails included, is answered with a response object in which  *)
(* a failure is a status field plus a message.                             *)
C8_Original ==
    ppc = "responded" =>
        /\ "status" \in DOMAIN presp.body
        /\ RunFailed => (/\ presp.body.status = "error"
                         /\ "error_message" \in DOMAIN presp.body)

(* C8 as amended: every /process and /process-simple request is answered:  *)
(* a run that succeeds with 200 and the result object (status success), a  *)
(* failed run with an HTTP 500 error response whose body holds nothing but *)
(* detail, which carries the failure message; it has no status field.  (A  *)
(* request whose body lacks a field starts no run and is answered 422.)    *)
C8_AlwaysAnswered ==
    /\ ppc \in {"method_done", "simple_return"} => ENABLED (ProcessRespond \/ SimpleRespond)
    /\ ppc = "responded" =>
        IF ~ValidAPIOutput(api_output)
        THEN presp = ValidationFailure
        ELSE IF RunFailed
        THEN /\ presp.http = 500
             /\ DOMAIN presp.body = {"detail"}
             /\ presp.body.detail =
                    IF endpoint = "/process"
                    THEN <<"500: ", results.error_message>>
                    ELSE flog[Len(flog)].error
        ELSE /\ presp.http = 200
             /\ presp.body.status = "success"
             /\ presp.body.formatted_content =
                    [concise |-> concise_content, detailed |-> detailed_content]
             /\ presp.body.proof = plinks

\* a run whose text stage failed has been answered
C8_Witness ==
    /\ ppc = "responded"
    /\ FormatterFailed
    /\ presp.http = 500

----------------------------------------------------------------------------
(* Specification SpecAuditor: up to MaxReqs /query requests reaching one   *)
(* process of the auditor service in any order.                            *)

NextAuditor ==
    \E r \in Reqs :
        \/ QueryArrive(r)
        \/ QueryBegin(r)
        \/ QuerySession(r)
        \/ QueryStream(r)
        \/ QueryForward(r)

SpecAuditor == Init /\ [][NextAuditor]_vars

\* request r holds a session id: it is past the get-or-create step
HoldsSession(r) ==
    \/ qpc[r] \in {"stream", "forward"}
    \/ qpc[r] = "done" /\ qresp[r].http = 200

C3_UsesStored ==
    \A r \in Reqs :
        HoldsSession(r) =>
            /\ quser[r] \in DOMAIN user_sessions
            /\ qsess[r] = user_sessions[quser[r]]
            /\ (qpc[r] = "done" => qresp[r].body.session_id = user_sessions[quser[r]])

\* this step is a create_session call of request r
CallsCreate(r) ==
    /\ qcreated[r] \notin {"created", "failed"}
    /\ qcreated'[r] \in {"created", "failed"}

C3_StoredStays ==
    \A u \in DOMAIN user_sessions :
        /\ u \in DOMAIN user_sessions'
        /\ user_sessions'[u] = user_sessions[u]
        /\ \A r \in Reqs : CallsCreate(r) => quser[r] # u

(* C3: once a session id is stored for a user id, every later /query from  *)
(* that user id, after any queries by any users, successful or failed,     *)
(* uses and returns that id, and create_session is not called again for    *)
(* that user id.  (The service has no operation that resets a session.)    *)
C3_SessionReused == [](C3_UsesStored) /\ [][C3_StoredStays]_vars

\* two answered queries of one user, the first of which created the session
\* the second one found, with a query of the other user served in between
C3_Witness ==
    \E r1, r2 \in Reqs :
        /\ r1 # r2 /\ quser[r1] = quser[r2]
        /\ qcreated[r1] = "created" /\ qcreated[r2] = "reused"
        /\ qpc[r1] = "done" /\ qresp[r1].http = 200
        /\ qpc[r2] = "done" /\ qresp[r2].http = 200
        /\ qresp[r1].body.session_id = qresp[r2].body.session_id
        /\ \E u \in DOMAIN user_sessions : u # quser[r1]

\* request r has arrived and request q, of another user, is inside its handler
Waits(r, q) ==
    /\ qpc[r] = "queued"
    /\ qpc[q] \in {"session", "stream", "forward"}
    /\ quser[r] # quser[q]

(* C10: for any interleaving of in-flight /query requests, two requests    *)
(* with the same user id never both create a session (at most one session  *)
(* is created per user id and both use the same id), while requests of     *)
(* different user ids are not blocked by one another.                      *)
C10_PerUserSerialized ==
    /\ \A u \in Users :
           Cardinality({r \in Reqs : quser[r] = u /\ qcreated[r] = "created"}) <= 1
    /\ \A r1, r2 \in Reqs :
           (HoldsSession(r1) /\ HoldsSession(r2) /\ quser[r1] = quser[r2])
               => qsess[r1] = qsess[r2]
    /\ \A r, q \in Reqs : Waits(r, q) => ENABLED QueryBegin(r)

\* how many parts the events before event e hold
RECURSIVE PartsBefore(_, _)
PartsBefore(events, e) ==
    IF e = 1 THEN 0 ELSE PartsBefore(events, e - 1) + Len(events[e - 1])

\* reply is the fragments of events in arrival order with one space between
\* consecutive fragments
IsSpaceJoin(reply, events) ==
    LET n == PartsBefore(events, Len(events) + 1)
    IN  /\ Len(reply) = IF n = 0 THEN 0 ELSE 2 * n - 1
        /\ \A e \in 1..Len(events) : \A p \in 1..Len(events[e]) :
               reply[2 * (PartsBefore(events, e) + p) - 1] = events[e][p].text
        /\ \A k \in 1..(n - 1) : reply[2 * k] = " "

\* the stream of request r ended normally and every part had its text
StreamSucceeded(r) ==
    /\ qevents[r] # NoValue
    /\ ~qevents[r].raised
    /\ \A e \in 1..Len(qevents[r].events) :
           \A p \in 1..Len(qevents[r].events[e]) :
               "text" \in DOMAIN qevents[r].events[e][p]

(* C11: for every sequence of events the agent backend returns for one     *)
(* query, the reply text is the text fragments of all parts of all events  *)
(* in arrival order (event order, then part order), joined with a single   *)
(* space; a fragment without its text field makes the query fail and no    *)
(* partial reply is returned.                                              *)
C11_ReplyIsSpaceJoin ==
    \A r \in Reqs :
        qevents[r] # NoValue =>
            IF StreamSucceeded(r)
            THEN /\ qpc[r] \in {"forward", "done"}
                 /\ qpc[r] = "forward" =>
                        IsSpaceJoin(qresp[r].response, qevents[r].events)
                 /\ (qpc[r] = "done" /\ qresp[r].http = 200) =>
                        IsSpaceJoin(qresp[r].body.response, qevents[r].events)
            ELSE /\ qpc[r] = "done"
                 /\ qresp[r].http = 500
                 /\ "response" \notin DOMAIN qresp[r].body

\* one query answered with the fragments of three events, three parts, and
\* another failed on a part without text that followed a part with text
C11_Witness ==
    \E r1, r2 \in Reqs :
        /\ qpc[r1] = "done" /\ qresp[r1].http = 200
        /\ Len(qevents[r1].events) = 3
        /\ qresp[r1].body.response = <<"a", " ", "b", " ", "c">>
        /\ qpc[r2] = "done" /\ qresp[r2].http = 500
        /\ qevents[r2] # NoValue /\ ~qevents[r2].raised
        /\ ~StreamSucceeded(r2)

----------------------------------------------------------------------------
(* Specification SpecSimple: up to MaxTime + 1 successive requests to      *)
(* /process and /process-simple, one of the /process-simple answers kept.  *)

NextSimple ==
    \/ Receive
    \/ ExtractStep
    \/ FormatConcise
    \/ FormatDetailed
    \/ SkipImage
    \/ ImageCall
    \/ GenLoop
    \/ FastTryModel
    \/ FastAllFailed
    \/ FastWriteNote
    \/ ImageReturn
    \/ CompileAndSave
    \/ ProcessRespond
    \/ SimpleRespond
    \/ KeepAnswer
    \/ NextRequest

SpecSimple == Init /\ [][NextSimple]_vars

\* the request just answered is a /process-simple call with the input of the
\* kept one, and the text model answered its prompts as it did then
SameCallAgain ==
    /\ ppc = "responded"
    /\ endpoint = "/process-simple"
    /\ presp.http = 200
    /\ simple_ref # NoValue
    /\ api_output = simple_ref.input
    /\ flog = simple_ref.answers

(* C12: two /process-simple calls with identical input, against a text     *)
(* model that answers the same prompts the same way, return identical      *)
(* formatted_content (concise and detailed) and identical proof, whatever  *)
(* requests were processed in between.                                     *)
C12_SimpleDeterministic ==
    SameCallAgain =>
        /\ presp.body.formatted_content = simple_ref.formatted_content
        /\ presp.body.proof = simple_ref.proof

\* the same call answered again, as the third request, on a text with links
C12_Witness ==
    /\ SameCallAgain
    /\ now = 2
    /\ Len(presp.body.proof) >= 1

----------------------------------------------------------------------------
(* Specification SpecHealth: GET /health requests to both services while   *)
(* the external backends change state.                                     *)

NextHealth ==
    \/ BackendChange
    \/ \E s \in Services :
          \/ HealthArrive(s)
          \/ HealthAnswer(s)

SpecHealth == Init /\ [][NextHealth]_vars

(* C13: GET /health of each service returns a health response in every     *)
(* state of the external backends: with the agent backend or the           *)
(* generative-model API reachable, unreachable or failing, a /health       *)
(* request can be answered as soon as the service runs its handler, the    *)
(* answer is not an error, and its status does not depend on an external   *)
(* call having succeeded.                                                  *)
C13_HealthAlwaysAnswers ==
    \A s \in Services :
        /\ (hpc[s] = "running" /\ loop = 0) => ENABLED HealthAnswer(s)
        /\ hresp[s] # NoValue =>
               /\ hresp[s].http = 200
               /\ hresp[s].body.status = "healthy"

\* the auditor answered while its agent backend was failing, and the
\* processor while the generative-model API could not be reached
C13_Witness ==
    /\ hresp["llm-auditor"] # NoValue
    /\ hduring["llm-auditor"].agent = "failing"
    /\ hresp["llm-auditor"].body.agent_engine = "unavailable"
    /\ hresp["microservice2"] # NoValue
    /\ hduring["microservice2"].genai = "unreachable"

----------------------------------------------------------------------------
(* Input validation of the processor endpoints (checked under              *)
(* SpecPipeline).                                                          *)

\* a field of api_output is left out
FieldAbsent == ~ValidAPIOutput(api_output)

\* the request is one the Received state has to reject
MustReject ==
    /\ ppc # "idle"
    /\ \/ FieldAbsent
       \/ api_output.response = << >>

\* no stage has run for the request: no formatter call, no image-model call
NoStageRan ==
    /\ flog = << >>
    /\ gpc = "idle"
    /\ ppc = "responded"

(* C14: a processing request is validated before any stage runs: one whose *)
(* response is empty, or whose session id is absent, is rejected with a    *)
(* client error and no formatter or image-model call is made for it.       *)
C14_ValidatedFirst ==
    MustReject =>
        /\ NoStageRan
        /\ presp.http \in 400..499

\* the part of C14 that holds: a request with a field left out is rejected
\* with 422 before the handler runs
C14_AbsentFieldRejected ==
    (ppc # "idle" /\ FieldAbsent) =>
        /\ NoStageRan
        /\ presp = ValidationFailure

\* a request with an empty response went through the text stage
C14_EmptyResponseProcessed ==
    /\ ppc = "responded"
    /\ ValidAPIOutput(api_output)
    /\ api_output.response = << >>
    /\ Len(flog) = 2
    /\ presp.http = 200

----------------------------------------------------------------------------
(* Forwarding to the processing service (checked under SpecAuditor).       *)

\* the forwarding call of request r did not bring back a result of /process
ForwardFailed(r) == qforward[r] \in ForwardOutcomes \ {"200"}

\* the answer of request r carries the agent's reply and the session id
CarriesReply(r) ==
    /\ qresp[r].http = 200
    /\ IsSpaceJoin(qresp[r].body.response, qevents[r].events)
    /\ qresp[r].body.session_id = qsess[r]

(* C15: once the agent query has succeeded, no outcome of the forwarding   *)
(* call (a non-200 status, a timeout, a transport error, any other         *)
(* exception, any answer) fails the /query request: the caller receives    *)
(* the aggregated response and the session id, and a forwarding failure    *)
(* shows only as an error entry inside justifyai_response.                 *)
C15_ForwardNeverFails ==
    \A r \in Reqs :
        (qpc[r] = "done" /\ StreamSucceeded(r)) =>
            /\ CarriesReply(r)
            /\ ForwardFailed(r) =>
                   "error" \in DOMAIN qresp[r].body.justifyai_response

\* the part of C15 that holds: a forwarding call that raised, timed out or
\* came back with another status than 200 leaves the request answered
C15_RaisedForwardAbsorbed ==
    \A r \in Reqs :
        (qpc[r] = "done"
         /\ qforward[r] \in {"non200", "timeout", "request_error", "other"}) =>
            /\ CarriesReply(r)
            /\ "error" \in DOMAIN qresp[r].body.justifyai_response

\* a request whose agent query succeeded was failed by the forwarding call
C15_FailedByForward ==
    \E r \in Reqs :
        /\ qpc[r] = "done"
        /\ StreamSucceeded(r)
        /\ qforward[r] = "200_not_object"
        /\ qresp[r].http = 500

----------------------------------------------------------------------------
(* Frame of the session dictionary (checked under SpecAuditor).            *)

\* this step is the successful create_session call of request r, made for a
\* user id without an entry, and it adds exactly that entry
CreatesEntry(r) ==
    /\ qpc[r] = "session" /\ loop = r
    /\ quser[r] \notin DOMAIN user_sessions
    /\ qcreated'[r] = "created"
    /\ DOMAIN user_sessions' = DOMAIN user_sessions \cup {quser[r]}
    /\ user_sessions'[quser[r]] = qsess'[r]
    /\ \A u \in DOMAIN user_sessions : user_sessions'[u] = user_sessions[u]

C16_MapStep ==
    /\ user_sessions' # user_sessions => \E r \in Reqs : CreatesEntry(r)
    /\ \A r \in Reqs :
           (qcreated[r] # "failed" /\ qcreated'[r] = "failed")
               => user_sessions' = user_sessions

\* the entry a request created is in place whatever became of the request
C16_CreatedStays ==
    \A r \in Reqs :
        qcreated[r] = "created" =>
            /\ quser[r] \in DOMAIN user_sessions
            /\ user_sessions[quser[r]] = qsess[r]

(* C16: the user id -> session id map changes only by a successful session *)
(* creation for a user id without an entry: a /query whose create_session  *)
(* fails or returns no id leaves the map unchanged, a /query that fails    *)
(* after its session was created leaves the new entry in place, and no     *)
(* step removes or overwrites an entry or touches another user's entry.    *)
C16_MapFrame == [](C16_CreatedStays) /\ [][C16_MapStep]_vars

\* one request created its session and then failed in the agent query,
\* another failed in create_session and its user has no entry
C16_Witness ==
    \E r1, r2 \in Reqs :
        /\ qcreated[r1] = "created"
        /\ qpc[r1] = "done" /\ qresp[r1].http = 500
        /\ user_sessions[quser[r1]] = qsess[r1]
        /\ qcreated[r2] = "failed"
        /\ qpc[r2] = "done"
        /\ quser[r2] \notin DOMAIN user_sessions

====
